---- MODULE Spec2Model ----
(***************************************************************************)
(* A model of python-edl: the EDL container (edl/edl.py) and the Title and *)
(* FrameCodeMode statements and the Event (edl/event.py).                  *)
(*                                                                         *)
(* Text is modelled as a sequence of one-character strings, so that the    *)
(* regular expressions, float() and str() of the source are computed       *)
(* character by character.  A Python value is a record                     *)
(*   [type, s, n, d, neg]                                                  *)
(* type: the Python 2 class name; s: the text of a str/unicode; n, d, neg: *)
(* the number (-1)^neg * n / 10^d of an int, float or bool.                *)
(***************************************************************************)
EXTENDS Integers, Sequences, FiniteSets, TLC

VARIABLES
    edl,    \* the EDL object of the last EDL(...) / EDL.from_string call
    stmt,   \* the Title / FrameCodeMode object under construction or edit
    exc,    \* the exception the last call raised ("" when it returned)
    call,   \* the last call: its name, its argument, its document lines
    heap    \* the Event objects constructed so far, in order of construction

vars == <<edl, stmt, exc, call, heap>>

----------------------------------------------------------------------------
(* Bounds of the model.                                                    *)

\* integers offered as fps run over -1..MaxInt
MaxInt == 100
\* trailing zeros appended to a fraction in an fps string ("23.98", "23.980")
MaxZeros == 1
\* title texts run up to MaxOver characters past the 70-character limit
MaxOver == 2
\* short title texts run over 0..MaxShort characters
MaxShort == 2
\* runs of leading blanks before an identifier have 0..MaxLead characters
MaxLead == 1
\* documents handed to EDL.from_string have at most MaxLines lines
MaxLines == 3

\* the Events constructed where record timecodes are scanned
MaxEvents == 3

\* the entries appended to an EDL
MaxHeld == 3

\* the Events constructed where transitions are derived
MaxChain == 2

\* the Events constructed where forward links are followed
MaxLinked == 3

----------------------------------------------------------------------------
(* Text helpers.                                                           *)

\* k copies of the character c
Rep(c, k) == [i \in 1..k |-> c]

DigitChars == <<"0", "1", "2", "3", "4", "5", "6", "7", "8", "9">>

IsDigit(c) == \E i \in 1..10 : DigitChars[i] = c

DigitVal(c) == (CHOOSE i \in 1..10 : DigitChars[i] = c) - 1

AllDigits(s) == \A i \in 1..Len(s) : IsDigit(s[i])

\* the number the first k digits of s spell
RECURSIVE DigitsToNatUpTo(_, _)
DigitsToNatUpTo(s, k) ==
    IF k = 0 THEN 0 ELSE DigitsToNatUpTo(s, k - 1) * 10 + DigitVal(s[k])

DigitsToNat(s) == DigitsToNatUpTo(s, Len(s))

RECURSIVE NatToDigits(_)
NatToDigits(k) ==
    IF k < 10 THEN <<DigitChars[k + 1]>>
    ELSE NatToDigits(k \div 10) \o <<DigitChars[(k % 10) + 1]>>

RECURSIVE Pow10(_)
Pow10(k) == IF k = 0 THEN 1 ELSE 10 * Pow10(k - 1)

\* the characters Python's str.split(), str.strip(), float() and the regex
\* class \s treat as whitespace (those of the model's alphabet)
IsSpace(c) == c \in {" ", "\t", "\n"}

\* the first position from i on of s that holds no whitespace
RECURSIVE SkipWs(_, _)
SkipWs(s, i) == IF i <= Len(s) /\ IsSpace(s[i]) THEN SkipWs(s, i + 1) ELSE i

\* the last position up to k of s that holds no whitespace
RECURSIVE SkipWsBack(_, _)
SkipWsBack(s, k) == IF k >= 1 /\ IsSpace(s[k]) THEN SkipWsBack(s, k - 1) ELSE k

LStripWs(s) == SubSeq(s, SkipWs(s, 1), Len(s))

RStripWs(s) == SubSeq(s, 1, SkipWsBack(s, Len(s)))

StripWs(s) == SubSeq(s, SkipWs(s, 1), SkipWsBack(s, Len(s)))

\* s starts with p at position i (1-based)
StartsAt(s, p, i) ==
    /\ i >= 1
    /\ i + Len(p) - 1 <= Len(s)
    /\ SubSeq(s, i, i + Len(p) - 1) = p

----------------------------------------------------------------------------
(* Python values.                                                          *)

PyVal(t, s, n, d, neg) == [type |-> t, s |-> s, n |-> n, d |-> d, neg |-> neg]

PyNone == PyVal("NoneType", <<>>, 0, 0, FALSE)
PyList == PyVal("list", <<>>, 0, 0, FALSE)
PyTuple == PyVal("tuple", <<>>, 0, 0, FALSE)
PyDict == PyVal("dict", <<>>, 0, 0, FALSE)
PyStr(s) == PyVal("str", s, 0, 0, FALSE)
PyUnicode(s) == PyVal("unicode", s, 0, 0, FALSE)
PyInt(i) == PyVal("int", <<>>, IF i < 0 THEN -i ELSE i, 0, i < 0)
PyBool(b) == PyVal("bool", <<>>, IF b THEN 1 ELSE 0, 0, FALSE)

\* a float (-1)^neg * n / 10^d, in lowest terms of ten
RECURSIVE PyFloat(_, _, _)
PyFloat(neg, n, d) ==
    IF d > 0 /\ n % 10 = 0 THEN PyFloat(neg, n \div 10, d - 1)
    ELSE PyVal("float", <<>>, n, d, neg)

\* the classes of a value's type, as isinstance() sees them (Python 2: bool
\* derives from int; str and unicode derive from basestring)
Bases(t) ==
    CASE t = "bool" -> {"bool", "int"}
      [] t = "str" -> {"str", "basestring"}
      [] t = "unicode" -> {"unicode", "basestring"}
      [] OTHER -> {t}

isinstance(v, classes) == Bases(v.type) \cap classes # {}

----------------------------------------------------------------------------
(* Python's float(), int() and str() on the values above.                  *)

\* the first position from i on of s that holds a point (Len(s) + 1 when
\* there is none)
RECURSIVE FindDot(_, _)
FindDot(s, i) == IF i <= Len(s) /\ s[i] # "." THEN FindDot(s, i + 1) ELSE i

\* float() of the digits ip before and fp after the point
FloatOfDigits(neg, ip, fp) ==
    IF AllDigits(ip) /\ AllDigits(fp) /\ Len(ip) + Len(fp) > 0
    THEN [ok |-> TRUE, val |-> PyFloat(neg, DigitsToNat(ip \o fp), Len(fp))]
    ELSE [ok |-> FALSE, val |-> PyNone]

\* float() of an unsigned numeral whose first point stands at position p
FloatOfUnsigned(neg, body, p) ==
    FloatOfDigits(neg, SubSeq(body, 1, p - 1), SubSeq(body, p + 1, Len(body)))

\* float() of a numeral without blanks around it
FloatOfStripped(t) ==
    IF t # <<>> /\ t[1] \in {"+", "-"}
    THEN FloatOfUnsigned(t[1] = "-", Tail(t), FindDot(Tail(t), 1))
    ELSE FloatOfUnsigned(FALSE, t, FindDot(t, 1))

\* float(text): blanks stripped, an optional sign, digits with at most one
\* point and at least one digit; ok = FALSE stands for ValueError
FloatParse(s) == FloatOfStripped(StripWs(s))

\* float.is_integer()
is_integer(v) == v.d = 0

\* int(x) of a whole float (int(-0.0) is 0)
IntOfFloat(v) == PyVal("int", <<>>, v.n, 0, v.neg /\ v.n > 0)

\* the digits of the fraction k / 10^d, d of them
FracDigits(k, d) == Rep("0", d - Len(NatToDigits(k))) \o NatToDigits(k)

\* str(x) of an int, a bool or a float; the floats of the model have at
\* most 12 significant digits and magnitude >= 0.0001 when not whole, where
\* Python 2's str() prints them positionally and in full
StrOf(v) ==
    CASE v.type = "bool" ->
           IF v.n = 1 THEN <<"T", "r", "u", "e">> ELSE <<"F", "a", "l", "s", "e">>
      [] v.type = "int" ->
           (IF v.neg THEN <<"-">> ELSE <<>>) \o NatToDigits(v.n)
      [] v.type = "float" ->
           (IF v.neg THEN <<"-">> ELSE <<>>)
               \o NatToDigits(v.n \div Pow10(v.d)) \o <<".">>
               \o (IF v.d = 0 THEN <<"0">> ELSE FracDigits(v.n % Pow10(v.d), v.d))
      [] OTHER -> v.s

----------------------------------------------------------------------------
(* class EDL: the framerate.                                               *)

_NTSC_non_drop_rates == << <<"2", "4">>, <<"3", "0">>, <<"6", "0">> >>

_NTSC_drop_rates ==
    << <<"2", "3", ".", "9", "8">>, <<"2", "9", ".", "9", "7">>,
       <<"5", "9", ".", "9", "4">> >>

_PAL_rates == << <<"2", "5">>, <<"5", "0">> >>

_supported_framerates == _NTSC_non_drop_rates \o _NTSC_drop_rates \o _PAL_rates

\* x in list
In(x, list) == \E i \in 1..Len(list) : list[i] = x

\* dict(zip(keys, values))[k]
ZipGet(keys, values, k) == values[CHOOSE i \in 1..Len(keys) : keys[i] = k]

_drop_to_nondrop(k) == ZipGet(_NTSC_drop_rates, _NTSC_non_drop_rates, k)

_nondrop_to_drop(k) == ZipGet(_NTSC_non_drop_rates, _NTSC_drop_rates, k)

NoEDL == [alive |-> FALSE, fps |-> <<>>, events |-> <<>>, title |-> <<>>]

\* FpsString without the is_integer() branch: a whole float keeps its ".0"
FpsString_NoWhole(fps) ==
    IF isinstance(fps, {"float", "int"}) THEN StrOf(fps) ELSE fps.s

\* lines 46-49: a number as the string the supported rates are compared
\* with
FpsString(fps) ==
    IF isinstance(fps, {"float"})
    THEN IF is_integer(fps) THEN StrOf(IntOfFloat(fps)) ELSE StrOf(fps)
    ELSE IF isinstance(fps, {"int"}) THEN StrOf(fps)
    ELSE fps.s

\* lines 51-56: the membership test and the construction
EDLInitString(fps) ==
    IF ~In(fps, _supported_framerates)
    THEN [exc |-> "ValueError", obj |-> NoEDL]
    ELSE [exc |-> "",
          obj |-> [alive |-> TRUE, fps |-> fps, events |-> <<>>, title |-> <<>>]]

\* lines 38-41: the outcome r of float(fps) for a string
EDLInitFloated(r) ==
    IF ~r.ok THEN [exc |-> "ValueError", obj |-> NoEDL]
    ELSE EDLInitString(FpsString(r.val))

\* EDL.__init__: the exception raised ("" for none) and the object built
EDL__init__(fps) ==
    IF ~isinstance(fps, {"basestring", "int", "float"})
    THEN [exc |-> "TypeError", obj |-> NoEDL]
    ELSE IF isinstance(fps, {"basestring"}) THEN EDLInitFloated(FloatParse(fps.s))
    ELSE EDLInitString(FpsString(fps))

isPAL(self) == In(self.fps, _PAL_rates)

\* isNTSC without the non-drop rates
isNTSC_DropOnly(self) == In(self.fps, _NTSC_drop_rates)

isNTSC(self) ==
    In(self.fps, _NTSC_drop_rates) \/ In(self.fps, _NTSC_non_drop_rates)

\* dropFrameRate that tests the drop rates where it should test the
\* non-drop ones, and so converts nothing
dropFrameRate_WrongList(self) ==
    IF In(self.fps, _NTSC_drop_rates) /\ In(self.fps, _NTSC_non_drop_rates)
    THEN _nondrop_to_drop(self.fps)
    ELSE self.fps

dropFrameRate(self) ==
    IF In(self.fps, _NTSC_non_drop_rates) THEN _nondrop_to_drop(self.fps)
    ELSE self.fps

nonDropFrameRate(self) ==
    IF In(self.fps, _NTSC_drop_rates) THEN _drop_to_nondrop(self.fps)
    ELSE self.fps

----------------------------------------------------------------------------
(* class Statement and its subclasses Title and FrameCodeMode.             *)

\* a statement object: its class, _raw, _title and _isDropFrame
StmtObj(kind, raw, title, drop) ==
    [kind |-> kind, _raw |-> raw, _title |-> title, _isDropFrame |-> drop]

NoStmt == StmtObj("none", PyNone, PyNone, FALSE)

\* the truth value of a Python value (if x:)
Truthy(v) ==
    CASE v.type = "NoneType" -> FALSE
      [] v.type \in {"str", "unicode"} -> v.s # <<>>
      [] v.type \in {"int", "float", "bool"} -> v.n # 0
      [] OTHER -> FALSE

\* the first argument of a call, None when there is none
FirstArg(args) == IF Len(args) = 0 THEN PyNone ELSE args[1]

\* Statement.__init__ with raw_text bound
StatementInitRaw(kind, raw_text) ==
    IF raw_text.type # "NoneType" /\ ~isinstance(raw_text, {"basestring"})
    THEN [exc |-> "TypeError", obj |-> NoStmt]
    ELSE [exc |-> "", obj |-> StmtObj(kind, raw_text, PyNone, FALSE)]

\* Statement.__init__(self, raw_text=None), called with the positional
\* arguments args: more than one is Python's TypeError for a call with too
\* many arguments
Statement__init__(kind, args) ==
    IF Len(args) > 1 THEN [exc |-> "TypeError", obj |-> NoStmt]
    ELSE StatementInitRaw(kind, FirstArg(args))

\* Statement.__str__
Statement__str__(self) == self._raw.s

Title_identifier == <<"T", "I", "T", "L", "E", ":">>

\* the end of the longest run of characters other than newline that starts
\* at position j of s (j - 1 when there is none): the regex .+ or .*
RECURSIVE DotRunEnd(_, _)
DotRunEnd(s, j) ==
    IF j <= Len(s) /\ s[j] # "\n" THEN DotRunEnd(s, j + 1) ELSE j - 1

\* (?P<title>.+) from position j of s
TitleGroupAt(s, j) ==
    [ok |-> DotRunEnd(s, j) >= j, title |-> SubSeq(s, j, DotRunEnd(s, j))]

\* \s?(?P<title>.+) from position j of s: the blank is taken (greedy) and
\* given back when nothing would be left for the title
TitleTailAt(s, j) ==
    IF j <= Len(s) /\ IsSpace(s[j]) /\ DotRunEnd(s, j + 1) >= j + 1
    THEN TitleGroupAt(s, j + 1)
    ELSE TitleGroupAt(s, j)

\* Title._regex matched at position i of s
TitleMatchAt(s, i) ==
    IF StartsAt(s, Title_identifier, i)
    THEN TitleTailAt(s, i + Len(Title_identifier))
    ELSE [ok |-> FALSE, title |-> <<>>]

\* the leftmost match of Title._regex in s at position i or later
RECURSIVE TitleSearchFrom(_, _)
TitleSearchFrom(s, i) ==
    IF i > Len(s) THEN [ok |-> FALSE, title |-> <<>>]
    ELSE IF TitleMatchAt(s, i).ok THEN TitleMatchAt(s, i)
    ELSE TitleSearchFrom(s, i + 1)

\* Title._regex.search(s)
TitleSearch(s) == TitleSearchFrom(s, 1)

\* TitleAdopt that raises nothing: a line without a match leaves a Title
\* that has no title
TitleAdopt_NoRaise(self, raw_text, m) ==
    IF ~m.ok THEN [exc |-> "", obj |-> self]
    ELSE [exc |-> "",
          obj |-> [self EXCEPT !._title = PyVal(raw_text.type, m.title, 0, 0, FALSE)]]

\* Title._parse with the outcome m of the search: the title group is
\* assigned to _title past the setter
TitleAdopt(self, raw_text, m) ==
    IF ~m.ok THEN [exc |-> "StatementError", obj |-> NoStmt]
    ELSE [exc |-> "",
          obj |-> [self EXCEPT !._title = PyVal(raw_text.type, m.title, 0, 0, FALSE)]]

\* Title._parse
Title_parse(self, raw_text) == TitleAdopt(self, raw_text, TitleSearch(raw_text.s))

\* Title.__init__ after the call base of Statement.__init__
TitleInitBase(base) ==
    IF base.exc # "" THEN base
    ELSE IF Truthy(base.obj._raw) THEN Title_parse(base.obj, base.obj._raw)
    ELSE base

\* Title.__init__
Title__init__(args) == TitleInitBase(Statement__init__("Title", args))

\* Title.__str__
Title__str__(self) ==
    Title_identifier \o <<" ">>
        \o (IF Truthy(self._title) THEN self._title.s ELSE <<>>)

TitleMaxLen == 70

\* Title.title getter
Title_title(self) == self._title

\* the setter without the test of the length
Title_set_title_NoLimit(self, value) ==
    IF ~isinstance(value, {"basestring"})
    THEN [exc |-> "TypeError", obj |-> self]
    ELSE [exc |-> "", obj |-> [self EXCEPT !._title = value]]

\* the setter with >= where the source has >
Title_set_title_OffByOne(self, value) ==
    IF ~isinstance(value, {"basestring"})
    THEN [exc |-> "TypeError", obj |-> self]
    ELSE IF Len(value.s) >= TitleMaxLen
    THEN [exc |-> "ValueError", obj |-> self]
    ELSE [exc |-> "", obj |-> [self EXCEPT !._title = value]]

\* Title.title setter
Title_set_title(self, value) ==
    IF ~isinstance(value, {"basestring"})
    THEN [exc |-> "TypeError", obj |-> self]
    ELSE IF Len(value.s) > TitleMaxLen
    THEN [exc |-> "ValueError", obj |-> self]
    ELSE [exc |-> "", obj |-> [self EXCEPT !._title = value]]

FCM_identifier == <<"F", "C", "M", ":">>

DROP_FRAME == <<"D", "R", "O", "P", " ", "F", "R", "A", "M", "E">>

NON_DROP_FRAME == <<"N", "O", "N", " ">> \o DROP_FRAME

\* DROP\sFRAME at position k of s
DropFrameAt(s, k) ==
    /\ StartsAt(s, <<"D", "R", "O", "P">>, k)
    /\ k + 4 <= Len(s)
    /\ IsSpace(s[k + 4])
    /\ StartsAt(s, <<"F", "R", "A", "M", "E">>, k + 5)

\* (?P<mode>(?:NON\s)?DROP\sFRAME) at position j of s
ModeMatchAt(s, j) ==
    IF /\ StartsAt(s, <<"N", "O", "N">>, j)
       /\ j + 3 <= Len(s)
       /\ IsSpace(s[j + 3])
       /\ DropFrameAt(s, j + 4)
    THEN [ok |-> TRUE, mode |-> SubSeq(s, j, j + 13)]
    ELSE IF DropFrameAt(s, j) THEN [ok |-> TRUE, mode |-> SubSeq(s, j, j + 9)]
    ELSE [ok |-> FALSE, mode |-> <<>>]

\* the length of the run of whitespace that starts at position j of s
RECURSIVE SpaceRun(_, _)
SpaceRun(s, j) ==
    IF j <= Len(s) /\ IsSpace(s[j]) THEN 1 + SpaceRun(s, j + 1) ELSE 0

\* (\s+)?(?P<mode>...) from position j of s with k blanks taken first: the
\* longest run is tried first and given back blank by blank
RECURSIVE FCMTailAt(_, _, _)
FCMTailAt(s, j, k) ==
    IF ModeMatchAt(s, j + k).ok THEN ModeMatchAt(s, j + k)
    ELSE IF k = 0 THEN [ok |-> FALSE, mode |-> <<>>]
    ELSE FCMTailAt(s, j, k - 1)

\* FrameCodeMode._regex matched at position i of s
FCMMatchAt(s, i) ==
    IF StartsAt(s, FCM_identifier, i)
    THEN FCMTailAt(s, i + Len(FCM_identifier),
                   SpaceRun(s, i + Len(FCM_identifier)))
    ELSE [ok |-> FALSE, mode |-> <<>>]

\* the leftmost match of FrameCodeMode._regex in s at position i or later
RECURSIVE FCMSearchFrom(_, _)
FCMSearchFrom(s, i) ==
    IF i > Len(s) THEN [ok |-> FALSE, mode |-> <<>>]
    ELSE IF FCMMatchAt(s, i).ok THEN FCMMatchAt(s, i)
    ELSE FCMSearchFrom(s, i + 1)

\* FrameCodeMode._regex.search(s)
FCMSearch(s) == FCMSearchFrom(s, 1)

\* FrameCodeMode._parse with the outcome m of the search
FCMAdopt(self, m) ==
    IF ~m.ok THEN [exc |-> "StatementError", obj |-> NoStmt]
    ELSE [exc |-> "", obj |-> [self EXCEPT !._isDropFrame = (DROP_FRAME = m.mode)]]

\* FrameCodeMode._parse
FCM_parse(self, raw_text) == FCMAdopt(self, FCMSearch(raw_text.s))

\* FrameCodeMode.__init__ after the call base of Statement.__init__
FCMInitBase(base) ==
    IF base.exc # "" THEN base
    ELSE IF Truthy(base.obj._raw) THEN FCM_parse(base.obj, base.obj._raw)
    ELSE base

\* FrameCodeMode.__init__
FrameCodeMode__init__(args) == FCMInitBase(Statement__init__("FrameCodeMode", args))

\* FrameCodeMode.isDropFrame getter
isDropFrame(self) == self._isDropFrame

\* FrameCodeMode._field_text
_field_text(self) == IF isDropFrame(self) THEN DROP_FRAME ELSE NON_DROP_FRAME

\* FrameCodeMode.__str__
FrameCodeMode__str__(self) == FCM_identifier \o <<" ">> \o _field_text(self)

\* the setter testing for int where the source tests for bool
FCM_set_isDropFrame_Int(self, value) ==
    IF ~isinstance(value, {"int"})
    THEN [exc |-> "TypeError", obj |-> self]
    ELSE [exc |-> "", obj |-> [self EXCEPT !._isDropFrame = (value.n = 1)]]

\* FrameCodeMode.isDropFrame setter
FCM_set_isDropFrame(self, value) ==
    IF ~isinstance(value, {"bool"})
    THEN [exc |-> "TypeError", obj |-> self]
    ELSE [exc |-> "", obj |-> [self EXCEPT !._isDropFrame = (value.n = 1)]]

\* str(statement), by the class of the statement; Event defines no __str__
\* and has the one of object
StrOfStmt(self) ==
    CASE self.kind = "Title" -> Title__str__(self)
      [] self.kind = "FrameCodeMode" -> FrameCodeMode__str__(self)
      [] self.kind = "Event" -> <<"<", "E", "v", "e", "n", "t", ">">>
      [] OTHER -> Statement__str__(self)

----------------------------------------------------------------------------
(* class EDL: parsing a document.                                          *)

\* the pieces of text between newlines, the piece in progress starting at
\* position start and the scan standing at position i
RECURSIVE SplitFrom(_, _, _)
SplitFrom(text, start, i) ==
    IF i > Len(text) THEN <<SubSeq(text, start, Len(text))>>
    ELSE IF text[i] = "\n"
         THEN <<SubSeq(text, start, i - 1)>> \o SplitFrom(text, i + 1, i + 1)
    ELSE SplitFrom(text, start, i + 1)

\* text.split('\n')
Split(text) == SplitFrom(text, 1, 1)

\* the lines of text, each with its newline, from position start on
RECURSIVE ReadLinesFrom(_, _, _)
ReadLinesFrom(text, start, i) ==
    IF i > Len(text)
    THEN IF start > Len(text) THEN <<>> ELSE <<SubSeq(text, start, Len(text))>>
    ELSE IF text[i] = "\n"
         THEN <<SubSeq(text, start, i)>> \o ReadLinesFrom(text, i + 1, i + 1)
    ELSE ReadLinesFrom(text, start, i + 1)

\* f.readlines() of a file holding text: every line keeps its newline
ReadLines(text) == ReadLinesFrom(text, 1, 1)

\* the last position up to k of s that holds no newline
RECURSIVE SkipNlBack(_, _)
SkipNlBack(s, k) == IF k >= 1 /\ s[k] = "\n" THEN SkipNlBack(s, k - 1) ELSE k

\* line.rstrip('\n')
RStripNl(s) == SubSeq(s, 1, SkipNlBack(s, Len(s)))

\* the EDL object as it is passed as an argument
PyEDL == PyVal("EDL", <<>>, 0, 0, FALSE)

\* edl.events.append(st), st the outcome of Statement(edl, line): an
\* exception ends the call
ParseAppend(obj, st) ==
    IF st.exc # "" THEN [exc |-> st.exc, obj |-> NoEDL]
    ELSE [exc |-> "", obj |-> [obj EXCEPT !.events = Append(@, st.obj)]]

\* the body of the loop of EDL._parse for one line, its newlines stripped:
\* a line that is not empty is appended as Statement(edl, line)
ParseLine(r, line) ==
    IF r.exc # "" \/ line = <<>> THEN r
    ELSE ParseAppend(r.obj, Statement__init__("Statement", <<PyEDL, PyStr(line)>>))

\* the loop of EDL._parse over the first k lines of data, from the outcome
\* made of EDL(fps)
RECURSIVE ParseLoop(_, _, _)
ParseLoop(made, data, k) ==
    IF k = 0 THEN made
    ELSE ParseLine(ParseLoop(made, data, k - 1), RStripNl(data[k]))

\* EDL._parse
EDL_parse(fps, data) == ParseLoop(EDL__init__(fps), data, Len(data))

\* EDL.from_string
from_string(fps, doc) == EDL_parse(fps, Split(doc))

\* EDL.from_file, of a file that holds doc
from_file(fps, doc) == EDL_parse(fps, ReadLines(doc))

\* len(edl)
EDL__len__(self) == Len(self.events)

----------------------------------------------------------------------------
(* The inputs the calls are tried on.                                      *)

\* whole parts of the numbers offered as fps
FpsWholes == {0, 1, 23, 24, 25, 26, 29, 30, 31, 49, 50, 51, 59, 60, 61, MaxInt}

\* fractions, in ten-thousandths, of the floats offered as fps
FpsFracs == {0, 100, 5000, 9400, 9700, 9799, 9800, 9801, 9900}

\* fraction digits of the strings offered as fps
FpsFracDigits ==
    {<<>>, <<"9", "8">>, <<"9", "7">>, <<"9", "4">>, <<"5">>,
     <<"9", "8", "0", "1">>}

\* numerals: a whole part, then nothing or a point and fraction digits with
\* trailing zeros
FpsNumerals ==
    {ip \o fp :
        ip \in {<<>>, <<"0", "2", "4">>}
               \cup {NatToDigits(w) : w \in {0, 23, 24, 25, 29, 30, 50, 59, 60}},
        fp \in {<<>>} \cup {<<".">> \o f \o Rep("0", k) :
                               f \in FpsFracDigits, k \in 0..MaxZeros}}

\* the texts offered as fps: numerals, bare, signed, padded with blanks or
\* followed by something that is no part of a number
FpsTexts ==
    UNION {{n, <<"-">> \o n, <<"+">> \o n, <<" ">> \o n \o <<" ", "\n">>,
            n \o <<"x">>, n \o <<".", "1">>} : n \in FpsNumerals}

FpsInputs ==
    {PyNone, PyList, PyTuple, PyDict, PyBool(TRUE), PyBool(FALSE)}
        \cup {PyInt(i) : i \in -1..MaxInt}
        \cup {PyFloat(neg, w * 10000 + f, 4) :
                 neg \in BOOLEAN, w \in FpsWholes, f \in FpsFracs}
        \cup {PyStr(s) : s \in FpsTexts}
        \cup {PyUnicode(s) : s \in FpsTexts}

\* title texts: short ones, ones around the 70-character limit, and one
\* with blanks inside and at its end
TitleTexts ==
    {Rep("a", k) : k \in 0..MaxShort}
        \cup {Rep("a", k) : k \in (TitleMaxLen - 1)..(TitleMaxLen + MaxOver)}
        \cup {<<"a", " ", " ", "b", " ">>}

\* the values assigned to Title.title
TitleValues ==
    {PyStr(s) : s \in TitleTexts} \cup {PyUnicode(s) : s \in TitleTexts}
        \cup {PyNone, PyInt(1234), PyFloat(FALSE, 12341234, 4), PyDict, PyList,
              PyTuple}

\* what stands before an identifier in a raw line
Leads == {Rep(" ", k) : k \in 0..MaxLead} \cup {<<"\t">>, <<"x", " ">>}

\* the raw lines a Title is constructed from
TitleLines ==
    {lead \o ident \o sep \o text :
        lead \in Leads,
        ident \in {Title_identifier, <<"T", "i", "t", "l", "e", ":">>,
                   <<"T", "I", "T", "L", "E", " ", ":">>, <<>>},
        sep \in {<<>>, <<" ">>, <<" ", " ">>, <<"\t">>},
        text \in {<<>>, <<"a">>, <<"a", " ", " ", "b", " ">>,
                  Rep("a", TitleMaxLen), Rep("a", TitleMaxLen + 1)}}

\* the argument lists of Title(...)
TitleArgs ==
    {<<>>, <<PyNone>>, <<PyInt(1234)>>, <<PyList>>}
        \cup {<<PyStr(s)>> : s \in TitleLines}
        \cup {<<PyUnicode(Title_identifier \o <<" ">> \o s)>> : s \in TitleTexts}

\* the raw lines a FrameCodeMode is constructed from
FCMLines ==
    {lead \o ident \o sep \o non \o drop \o trail :
        lead \in Leads,
        ident \in {FCM_identifier, <<"F", "C", "M">>, <<"F", "c", "m", ":">>},
        sep \in {<<>>, <<" ">>, <<" ", " ">>, <<"\t">>},
        non \in {<<>>, <<"N", "O", "N", " ">>, <<"N", "O", "N", "\t">>,
                 <<"N", "o", "n", " ">>, <<"N", "O", "N", " ", " ">>},
        drop \in {DROP_FRAME, <<"D", "R", "O", "P", "\t", "F", "R", "A", "M", "E">>,
                  <<"D", "R", "O", "P", " ", " ", "F", "R", "A", "M", "E">>,
                  <<"D", "r", "o", "p", " ", "F", "r", "a", "m", "e">>,
                  <<"D", "R", "O", "P">>},
        trail \in {<<>>, <<" ">>, <<" ", " ", ".">>}}

\* the argument lists of FrameCodeMode(...)
FCMArgs ==
    {<<>>, <<PyNone>>, <<PyInt(1234)>>, <<PyStr(<<>>)>>}
        \cup {<<PyStr(s)>> : s \in FCMLines}
        \cup {<<PyUnicode(s)>> : s \in {FCM_identifier \o <<" ">> \o DROP_FRAME,
                                         FCM_identifier \o NON_DROP_FRAME}}

\* the values assigned to FrameCodeMode.isDropFrame
FCMValues ==
    {PyBool(TRUE), PyBool(FALSE), PyInt(1234), PyInt(1), PyInt(0),
     PyFloat(FALSE, 1234567, 3), PyDict, PyTuple, PyList, PyNone,
     PyStr(DROP_FRAME), PyStr(NON_DROP_FRAME)}

\* the lines documents are made of
DocLines ==
    {<<>>, <<" ">>, Title_identifier \o <<" ", "a">>,
     FCM_identifier \o <<" ">> \o DROP_FRAME, <<"x">>,
     FCM_identifier \o <<" ", "D", "r", "o", "p", " ", "F", "r", "a", "m", "e">>}

\* a.join(lines) with a newline
RECURSIVE JoinNl(_)
JoinNl(lines) ==
    IF lines = <<>> THEN <<>>
    ELSE IF Len(lines) = 1 THEN lines[1]
    ELSE lines[1] \o <<"\n">> \o JoinNl(Tail(lines))

\* the documents: up to MaxLines lines, with or without a final newline
DocTexts ==
    UNION {{JoinNl(ls), JoinNl(ls) \o <<"\n">>} :
              ls \in UNION {[1..k -> DocLines] : k \in 0..MaxLines}}

\* the fps values documents are parsed with
DocFps == {PyInt(24), PyStr(<<"2", "3", ".", "9", "8">>), PyInt(0), PyNone}

----------------------------------------------------------------------------
(* class EDL: its string form.                                             *)

\* the string forms of the entries of events from position i on
RECURSIVE StrOfEvents(_, _)
StrOfEvents(events, i) ==
    IF i > Len(events) THEN <<>>
    ELSE <<StrOfStmt(events[i])>> \o StrOfEvents(events, i + 1)

\* EDL.to_string: a TITLE: line of the EDL's title, an empty line, then the
\* string form of each entry of events, joined with newlines
to_string(self) ==
    JoinNl(<<Title_identifier \o <<" ">> \o self.title, <<>>>>
               \o StrOfEvents(self.events, 1))

----------------------------------------------------------------------------
(* class Event, and the scans of the EDL over its events.                  *)

\* the transitions of edl.effects: a Cut, and a Dissolve for those that are
\* none
Cut == PyVal("Cut", <<>>, 0, 0, FALSE)
Dissolve == PyVal("Dissolve", <<>>, 0, 0, FALSE)

\* a timecode object of n frames
Timecode(n) == PyVal("Timecode", <<>>, n, 0, FALSE)

\* the Event object number i of the heap, as a value held by a field or by
\* the events of an EDL
EventRef(i) == [kind |-> "Event", id |-> i]

\* the attributes of an Event the methods below read
EventFields == {"transition", "aux", "next_event", "rec_start_tc", "rec_end_tc"}

\* Event.__init__: every attribute None, then those of options
Event__init__(options) ==
    [f \in EventFields |-> IF f \in DOMAIN options THEN options[f] ELSE PyNone]

\* the truth value of an attribute: an Event object is true
TruthyAttr(v) == IF "kind" \in DOMAIN v THEN TRUE ELSE Truthy(v)

\* a value returned, an exception raised
Returned(v) == [exc |-> "", val |-> v]
Raised(e) == [exc |-> e, val |-> 0]

\* int(text) of the text stripped of whitespace
IntOfStripped(b) ==
    IF b # <<>> /\ AllDigits(b) THEN Returned(DigitsToNat(b))
    ELSE IF Len(b) > 1 /\ b[1] = "+" /\ AllDigits(Tail(b))
    THEN Returned(DigitsToNat(Tail(b)))
    ELSE IF Len(b) > 1 /\ b[1] = "-" /\ AllDigits(Tail(b))
    THEN Returned(0 - DigitsToNat(Tail(b)))
    ELSE Raised("ValueError")

\* int(v)
IntOf(v) ==
    CASE v.type \in {"str", "unicode"} -> IntOfStripped(StripWs(v.s))
      [] v.type \in {"int", "bool"} -> Returned(IF v.neg THEN 0 - v.n ELSE v.n)
      [] OTHER -> Raised("TypeError")

\* Event.has_transition
has_transition(self) == ~isinstance(self.transition, {"Cut"})

\* incoming_transition_duration without the test for a Cut
incoming_transition_duration_NoCut(self) == IntOf(self.aux)

\* Event.incoming_transition_duration
incoming_transition_duration(self) ==
    IF ~isinstance(self.transition, {"Cut"}) THEN IntOf(self.aux)
    ELSE Returned(0)

\* Event.outgoing_transition_duration, hp the heap
outgoing_transition_duration(self, hp) ==
    IF TruthyAttr(self.next_event)
    THEN incoming_transition_duration(hp[self.next_event.id])
    ELSE Returned(0)

\* Event.ends_with_transition
ends_with_transition(self, hp) ==
    IF TruthyAttr(self.next_event) THEN has_transition(hp[self.next_event.id])
    ELSE FALSE

\* a.frames - b.frames: None has no attribute frames
FramesApart(a, b) ==
    IF a.type = "Timecode" /\ b.type = "Timecode" THEN Returned(a.n - b.n)
    ELSE Raised("AttributeError")

\* Event.rec_length
rec_length(self) == FramesApart(self.rec_end_tc, self.rec_start_tc)

\* a + b of two outcomes, a computed first
AddOutcomes(a, b) ==
    IF a.exc # "" THEN a
    ELSE IF b.exc # "" THEN b
    ELSE Returned(a.val + b.val)

\* Event.rec_length_with_transition
rec_length_with_transition(self, hp) ==
    AddOutcomes(rec_length(self), outgoing_transition_duration(self, hp))

\* e.rec_start_tc / e.rec_end_tc of an entry e of events: only an Event has
\* the attribute
RecTc(e, field, hp) ==
    IF e.kind = "Event" THEN Returned(hp[e.id][field])
    ELSE Raised("AttributeError")

\* the body of the loop of get_start (sign = 1) and of get_end (sign = -1):
\* kept is the timecode held so far, got the one of the entry
ScanStep(kept, got, sign) ==
    IF kept.exc # "" THEN kept
    ELSE IF got.exc # "" THEN got
    ELSE IF kept.val = PyNone THEN got
    ELSE IF got.val.type # "Timecode" THEN Raised("AttributeError")
    ELSE IF sign * got.val.n < sign * kept.val.n THEN got
    ELSE kept

\* the loop of get_start / get_end over the first k entries of events
RECURSIVE Scan(_, _, _, _, _)
Scan(events, k, field, sign, hp) ==
    IF k = 0 THEN Returned(PyNone)
    ELSE ScanStep(Scan(events, k - 1, field, sign, hp),
                  RecTc(events[k], field, hp), sign)

\* EDL.get_start
get_start(self, hp) == Scan(self.events, Len(self.events), "rec_start_tc", 1, hp)

\* EDL.get_end
get_end(self, hp) == Scan(self.events, Len(self.events), "rec_end_tc", -1, hp)

\* x.frames - y.frames of two outcomes, x computed first
LengthOf(x, y) ==
    IF x.exc # "" THEN x
    ELSE IF y.exc # "" THEN y
    ELSE FramesApart(x.val, y.val)

\* EDL.get_length
get_length(self, hp) == LengthOf(get_end(self, hp), get_start(self, hp))

\* EDL.append
append(self, evt) == [self EXCEPT !.events = Append(@, evt)]

\* the mapping without keys
NoOptions == [f \in {} |-> PyNone]

\* the option mappings of Events with record timecodes
TimeOptions ==
    {NoOptions}
        \cup {[rec_start_tc |-> Timecode(p[1]), rec_end_tc |-> Timecode(p[2])] :
                 p \in {<<0, 24>>, <<24, 100>>, <<100, 150>>}}

\* what is appended to an EDL next to the Events of the heap
TitleHeld == Title__init__(<<PyStr(Title_identifier \o <<" ", "a">>)>>).obj

\* the values of next_event: None or an Event constructed before
NextEvents(hp) == {PyNone} \cup {EventRef(i) : i \in 1..Len(hp)}

\* the option mappings of Events with a transition
ChainOptions(hp) ==
    {[transition |-> tr, aux |-> aux, next_event |-> nx,
      rec_start_tc |-> tc[1], rec_end_tc |-> tc[2]] :
        tr \in {PyNone, Cut, Dissolve},
        aux \in {PyNone, PyStr(<<"2", "4">>), PyStr(<<>>)},
        nx \in NextEvents(hp),
        tc \in {<<PyNone, PyNone>>, <<Timecode(0), Timecode(24)>>}}

\* the option mappings of Events with a forward link
LinkOptions(hp) == {NoOptions} \cup {[next_event |-> nx] : nx \in NextEvents(hp)}

----------------------------------------------------------------------------
(* The state machine.                                                      *)

\* Each behaviour follows one object from its construction on: __init__ runs
\* once per object and reads nothing of an earlier object, so a constructor
\* call is taken from the initial state only; the assignments to the object
\* built follow in any number and order.

Call(op, arg, text) == [op |-> op, arg |-> arg, text |-> text]

\* no object has been constructed in this behaviour
Fresh == call.op = "none"

Init ==
    /\ edl = NoEDL
    /\ stmt = NoStmt
    /\ exc = ""
    /\ call = Call("none", PyNone, <<>>)
    /\ heap = <<>>

\* edl = EDL(fps)
EDLNew(fps) ==
    LET r == EDL__init__(fps)
    IN  /\ Fresh
        /\ edl' = r.obj
        /\ exc' = r.exc
        /\ call' = Call("EDL", fps, <<>>)
        /\ UNCHANGED <<stmt, heap>>

\* edl = EDL.from_string(fps, text)
FromString(fps, text) ==
    LET r == from_string(fps, text)
    IN  /\ Fresh
        /\ edl' = r.obj
        /\ exc' = r.exc
        /\ call' = Call("from_string", fps, text)
        /\ UNCHANGED <<stmt, heap>>

\* edl = EDL.from_file(fps, path), the file holding text
FromFile(fps, text) ==
    LET r == from_file(fps, text)
    IN  /\ Fresh
        /\ edl' = r.obj
        /\ exc' = r.exc
        /\ call' = Call("from_file", fps, text)
        /\ UNCHANGED <<stmt, heap>>

\* stmt = Title(*args)
TitleNew(args) ==
    LET r == Title__init__(args)
    IN  /\ Fresh
        /\ stmt' = r.obj
        /\ exc' = r.exc
        /\ call' = Call("Title", FirstArg(args), <<>>)
        /\ UNCHANGED <<edl, heap>>

\* stmt.title = value
TitleAssign(value) ==
    LET r == Title_set_title(stmt, value)
    IN  /\ stmt.kind = "Title"
        /\ stmt' = r.obj
        /\ exc' = r.exc
        /\ call' = Call("title=", value, <<>>)
        /\ UNCHANGED <<edl, heap>>

\* stmt = FrameCodeMode(*args)
FCMNew(args) ==
    LET r == FrameCodeMode__init__(args)
    IN  /\ Fresh
        /\ stmt' = r.obj
        /\ exc' = r.exc
        /\ call' = Call("FrameCodeMode", FirstArg(args), <<>>)
        /\ UNCHANGED <<edl, heap>>

\* stmt.isDropFrame = value
FCMAssign(value) ==
    LET r == FCM_set_isDropFrame(stmt, value)
    IN  /\ stmt.kind = "FrameCodeMode"
        /\ stmt' = r.obj
        /\ exc' = r.exc
        /\ call' = Call("isDropFrame=", value, <<>>)
        /\ UNCHANGED <<edl, heap>>

\* Event(options), while fewer than limit Events exist
EventNew(options, limit) ==
    /\ Len(heap) < limit
    /\ heap' = Append(heap, Event__init__(options))
    /\ exc' = ""
    /\ call' = Call("Event", PyNone, <<>>)
    /\ UNCHANGED <<edl, stmt>>

\* edl.append(evt), while the EDL holds fewer than limit entries
EDLAppend(evt, limit) ==
    /\ edl.alive
    /\ Len(edl.events) < limit
    /\ edl' = append(edl, evt)
    /\ exc' = ""
    /\ call' = Call("append", PyNone, <<>>)
    /\ UNCHANGED <<stmt, heap>>

NextFps == \E fps \in FpsInputs : EDLNew(fps)

NextTitle ==
    \/ \E args \in TitleArgs : TitleNew(args)
    \/ \E value \in TitleValues : TitleAssign(value)

NextFCM ==
    \/ \E args \in FCMArgs : FCMNew(args)
    \/ \E value \in FCMValues : FCMAssign(value)

NextParse ==
    \/ \E fps \in DocFps, text \in DocTexts : FromString(fps, text)
    \/ \E fps \in DocFps, text \in DocTexts : FromFile(fps, text)

\* an EDL at 24, Events with record timecodes, and these and a Title
\* appended to the EDL
NextTimes ==
    \/ EDLNew(PyInt(24))
    \/ \E options \in TimeOptions : EventNew(options, MaxEvents)
    \/ \E evt \in {EventRef(i) : i \in 1..Len(heap)} \cup {TitleHeld} :
          EDLAppend(evt, MaxHeld)

\* Events with transitions, each linked to none or to one constructed before
NextChain ==
    \E options \in ChainOptions(heap) : EventNew(options, MaxChain)

\* an EDL at 24, Events with forward links, and these appended to the EDL
NextLinks ==
    \/ EDLNew(PyInt(24))
    \/ \E options \in LinkOptions(heap) : EventNew(options, MaxLinked)
    \/ \E i \in 1..Len(heap) : EDLAppend(EventRef(i), MaxLinked)

Next == NextFps \/ NextTitle \/ NextFCM \/ NextParse \/ NextTimes \/ NextChain \/ NextLinks

\* the framerate of an EDL
Spec == Init /\ [][NextFps]_vars

\* a Title or a FrameCodeMode statement, constructed and assigned to
SpecStmt == Init /\ [][NextTitle \/ NextFCM]_vars

\* documents parsed into an EDL
SpecParse == Init /\ [][NextParse]_vars

\* the record timecodes of the events of an EDL
SpecTimes == Init /\ [][NextTimes]_vars

\* the transitions of Events
SpecChain == Init /\ [][NextChain]_vars

\* the forward links of the Events of an EDL
SpecLinks == Init /\ [][NextLinks]_vars

----------------------------------------------------------------------------
(* The framerate claims, checked under Spec.                               *)

L_23_98 == <<"2", "3", ".", "9", "8">>
L_24 == <<"2", "4">>
L_25 == <<"2", "5">>
L_29_97 == <<"2", "9", ".", "9", "7">>
L_30 == <<"3", "0">>
L_50 == <<"5", "0">>
L_59_94 == <<"5", "9", ".", "9", "4">>
L_60 == <<"6", "0">>

\* the eight supported labels
Labels == {L_23_98, L_24, L_25, L_29_97, L_30, L_50, L_59_94, L_60}

\* the number a label spells, as n / 10^d
LabelNumber(l) ==
    CASE l = L_23_98 -> <<2398, 2>>
      [] l = L_29_97 -> <<2997, 2>>
      [] l = L_59_94 -> <<5994, 2>>
      [] l = L_24 -> <<24, 0>>
      [] l = L_25 -> <<25, 0>>
      [] l = L_30 -> <<30, 0>>
      [] l = L_50 -> <<50, 0>>
      [] l = L_60 -> <<60, 0>>

\* the label l has a point
HasPoint(l) == \E i \in 1..Len(l) : l[i] = "."

\* the text t is a numeral whose value is that of the label l: blanks
\* around it, an optional plus sign, zeros before the label, and after it
\* zeros behind a point
TextDenotes(t, l) ==
    \E a \in 0..Len(t), z \in 0..Len(t), plus \in {<<>>, <<"+">>},
       tail \in {<<>>, <<".">>} :
        /\ z > 0 => (HasPoint(l) \/ tail = <<".">>)
        /\ HasPoint(l) => tail = <<>>
        /\ StripWs(t) = plus \o Rep("0", a) \o l \o tail \o Rep("0", z)

\* the value v is a string, an int or a float (a bool is an int)
IsStrIntFloat(v) == v.type \in {"str", "unicode", "int", "bool", "float"}

\* the canonical form of the value v is the label l
CanonicalIs(v, l) ==
    CASE v.type \in {"str", "unicode"} -> TextDenotes(v.s, l)
      [] v.type \in {"int", "float"} -> ~v.neg /\ <<v.n, v.d>> = LabelNumber(l)
      [] OTHER -> FALSE

\* the integers the spec lists as rejected
RejectedInts == {-1, 0, 1, 23, 26, 29, 31, 49, 51, 59, 61, 100}

\* C1: EDL(fps) raises TypeError exactly when fps is no string, int or
\* float; raises ValueError when it is one whose canonical form is none of
\* the eight labels (the listed integers among them); and otherwise
\* succeeds with fps the label that is its canonical form. Nothing but one
\* of the eight labels is ever stored.
C1_FpsOutcome ==
    /\ edl.alive => edl.fps \in Labels
    /\ call.op = "EDL" =>
        /\ exc \in {"", "TypeError", "ValueError"}
        /\ (exc = "TypeError") = ~IsStrIntFloat(call.arg)
        /\ (exc = "ValueError") =
              (IsStrIntFloat(call.arg) /\ \A l \in Labels : ~CanonicalIs(call.arg, l))
        /\ (exc = "") = edl.alive
        /\ edl.alive => CanonicalIs(call.arg, edl.fps)
        /\ \A i \in RejectedInts : call.arg = PyInt(i) => exc = "ValueError"

\* a float string with a trailing zero is stored as its label
C1_Witness ==
    /\ call.op = "EDL"
    /\ call.arg = PyStr(<<"2", "3", ".", "9", "8", "0">>)
    /\ exc = ""
    /\ edl.fps = L_23_98

\* the EDL built from the label l
EDLOf(l) == EDL__init__(PyStr(l)).obj

\* the other label of an NTSC drop / non-drop pair, the label itself for PAL
PairOf(l) ==
    CASE l = L_24 -> L_23_98
      [] l = L_30 -> L_29_97
      [] l = L_60 -> L_59_94
      [] l = L_23_98 -> L_24
      [] l = L_29_97 -> L_30
      [] l = L_59_94 -> L_60
      [] OTHER -> l

\* C2: on each of the eight labels dropFrameRate maps 24, 30, 60 to 23.98,
\* 29.97, 59.94 and nonDropFrameRate maps these back, each leaving every
\* other label unchanged (25 and 50 under both);
\* dropFrameRate(nonDropFrameRate(x)) = dropFrameRate(x), and the two labels
\* of a pair agree on both conversions.
C2_DropConversion ==
    edl.alive =>
        /\ dropFrameRate(edl) =
              (IF edl.fps \in {L_24, L_30, L_60} THEN PairOf(edl.fps) ELSE edl.fps)
        /\ nonDropFrameRate(edl) =
              (IF edl.fps \in {L_23_98, L_29_97, L_59_94} THEN PairOf(edl.fps)
               ELSE edl.fps)
        /\ edl.fps \in {L_25, L_50} =>
              dropFrameRate(edl) = edl.fps /\ nonDropFrameRate(edl) = edl.fps
        /\ dropFrameRate(EDLOf(nonDropFrameRate(edl))) = dropFrameRate(edl)
        /\ dropFrameRate(EDLOf(PairOf(edl.fps))) = dropFrameRate(edl)
        /\ nonDropFrameRate(EDLOf(PairOf(edl.fps))) = nonDropFrameRate(edl)

\* an EDL at 30 whose drop-frame rate is 29.97
C2_Witness ==
    /\ edl.alive
    /\ edl.fps = L_30
    /\ dropFrameRate(edl) = L_29_97
    /\ nonDropFrameRate(edl) = L_30

\* C3: of isPAL and isNTSC exactly one is true of every EDL: isPAL iff fps
\* is 25 or 50, isNTSC iff fps is one of the six NTSC labels.
C3_PalXorNtsc ==
    edl.alive =>
        /\ isPAL(edl) = (edl.fps \in {L_25, L_50})
        /\ isNTSC(edl) = (edl.fps \in {L_24, L_30, L_60, L_23_98, L_29_97, L_59_94})
        /\ isPAL(edl) # isNTSC(edl)

\* an EDL built from the int 60, NTSC and not PAL
C3_Witness ==
    /\ call.arg = PyInt(60)
    /\ edl.alive
    /\ isNTSC(edl)
    /\ ~isPAL(edl)

----------------------------------------------------------------------------
(* The statement claims, checked under SpecStmt.                           *)

\* the value v is a byte or a unicode string
IsString(v) == v.type \in {"str", "unicode"}

\* C4: after stmt.title = v, a string v of at most 70 characters was
\* accepted and title reads back as v; a string of 71 or more raised
\* ValueError; anything else raised TypeError.
C4_TitleAssign ==
    call.op = "title=" =>
        /\ (IsString(call.arg) /\ Len(call.arg.s) <= 70) =>
              (exc = "" /\ Title_title(stmt) = call.arg)
        /\ (IsString(call.arg) /\ Len(call.arg.s) >= 71) => exc = "ValueError"
        /\ ~IsString(call.arg) => exc = "TypeError"

\* a title of exactly 70 characters was assigned and reads back
C4_Witness ==
    /\ call.op = "title="
    /\ call.arg = PyStr(Rep("a", 70))
    /\ exc = ""
    /\ Title_title(stmt) = PyStr(Rep("a", 70))

\* the text s ends with the text u
EndsWith(s, u) ==
    Len(u) <= Len(s) /\ SubSeq(s, Len(s) - Len(u) + 1, Len(s)) = u

\* C5 as stated: the title of a Title is always unset or a string of at
\* most 70 characters.
C5_TitleWithinLimit ==
    stmt.kind = "Title" =>
        \/ Title_title(stmt) = PyNone
        \/ IsString(Title_title(stmt)) /\ Len(Title_title(stmt).s) <= 70

\* C5, amended: the title of a Title is unset, or a string of at most 70
\* characters, or the tail of the raw line the Title was parsed from, of
\* any length; and after a successful assignment it is at most 70
\* characters long.
C5_TitleLimitOrRaw ==
    stmt.kind = "Title" =>
        /\ \/ Title_title(stmt) = PyNone
           \/ IsString(Title_title(stmt)) /\ Len(Title_title(stmt).s) <= 70
           \/ /\ IsString(Title_title(stmt))
              /\ IsString(stmt._raw)
              /\ EndsWith(stmt._raw.s, Title_title(stmt).s)
        /\ (call.op = "title=" /\ exc = "") => Len(Title_title(stmt).s) <= 70

\* a Title parsed from a line with a title of 71 characters holds it
C5_Witness ==
    /\ call.op = "Title"
    /\ exc = ""
    /\ stmt.kind = "Title"
    /\ Title_title(stmt) = PyStr(Rep("a", 71))

\* the text s is the text u behind nothing but whitespace
HeadedBy(s, u) == StartsAt(LStripWs(s), u, 1)

\* the raw line s has the shape of a Title line: the identifier behind
\* nothing but whitespace
FitsTitle(s) == HeadedBy(s, <<"T", "I", "T", "L", "E", ":">>)

\* the raw line s has the shape of a FrameCodeMode line: the identifier
\* behind nothing but whitespace, optional whitespace, one of the two modes
\* and nothing but whitespace after it
FitsFCM(s) ==
    /\ HeadedBy(s, <<"F", "C", "M", ":">>)
    /\ LET b == StripWs(s)
       IN  LStripWs(SubSeq(b, 5, Len(b))) \in
               {<<"D", "R", "O", "P", " ", "F", "R", "A", "M", "E">>,
                <<"N", "O", "N", " ", "D", "R", "O", "P", " ", "F", "R", "A", "M", "E">>}

\* a constructor of one of the two kinds was called with a string
BuiltFromString ==
    call.op \in {"Title", "FrameCodeMode"} /\ IsString(call.arg)

\* C6 as stated: a Title or FrameCodeMode constructed from a raw string
\* that does not have the shape of its kind fails with StatementError and
\* yields no record.
C6_MisfitRejected ==
    (/\ BuiltFromString
     /\ IF call.op = "Title" THEN ~FitsTitle(call.arg.s) ELSE ~FitsFCM(call.arg.s))
        => (exc = "StatementError" /\ stmt = NoStmt)

\* the whitespace characters of the raw lines
Blanks == {" ", "\t", "\n"}

\* the pattern of Title occurs in s: TITLE:, then a character other than a
\* newline, directly or behind one whitespace character
TitleOccurs(s) ==
    \E i \in 1..Len(s) :
        /\ StartsAt(s, <<"T", "I", "T", "L", "E", ":">>, i)
        /\ \/ i + 6 <= Len(s) /\ s[i + 6] # "\n"
           \/ i + 7 <= Len(s) /\ s[i + 6] \in Blanks /\ s[i + 7] # "\n"

\* the pattern of FrameCodeMode occurs in s: FCM:, any whitespace, then
\* DROP FRAME or NON DROP FRAME, the words one whitespace character apart
FCMOccurs(s) ==
    \E i \in 1..Len(s), j \in 1..Len(s), w1 \in Blanks, w2 \in Blanks :
        /\ StartsAt(s, <<"F", "C", "M", ":">>, i)
        /\ j >= i + 4
        /\ \A k \in (i + 4)..(j - 1) : s[k] \in Blanks
        /\ \/ StartsAt(s, <<"D", "R", "O", "P", w2, "F", "R", "A", "M", "E">>, j)
           \/ StartsAt(s, <<"N", "O", "N", w1,
                            "D", "R", "O", "P", w2, "F", "R", "A", "M", "E">>, j)

\* C6, amended: a Title or FrameCodeMode constructed from a raw string
\* fails with StatementError, and yields no record, exactly when the string
\* is not empty and the pattern of its kind occurs nowhere in it. The
\* identifier is case-sensitive and keeps its colon, but what stands before
\* it (and, for FrameCodeMode, after the mode) is ignored; the empty string
\* is not parsed and yields a record with the default field.
C6_NoMatchRejected ==
    BuiltFromString =>
        /\ (exc = "StatementError") =
              (/\ call.arg.s # <<>>
               /\ IF call.op = "Title" THEN ~TitleOccurs(call.arg.s)
                  ELSE ~FCMOccurs(call.arg.s))
        /\ exc \in {"", "StatementError"}
        /\ (exc = "StatementError") = (stmt = NoStmt)
        /\ call.arg.s = <<>> =>
              /\ stmt.kind = call.op
              /\ stmt._title = PyNone
              /\ ~stmt._isDropFrame

\* a line with a mixed-case identifier was rejected by Title
C6_Witness ==
    /\ call.op = "Title"
    /\ call.arg = PyStr(<<"T", "i", "t", "l", "e", ":", " ", "a">>)
    /\ exc = "StatementError"
    /\ stmt = NoStmt

\* NON occurs in the text s
HasNON(s) == \E i \in 1..Len(s) : StartsAt(s, <<"N", "O", "N">>, i)

\* C7 as stated: a FrameCodeMode parsed from an accepted raw line is
\* drop-frame exactly when the mode of the line is not the NON one, whatever
\* the whitespace in the line, and its string form is the canonical line of
\* that mode.
C7_ModeRecorded ==
    (call.op = "FrameCodeMode" /\ IsString(call.arg) /\ call.arg.s # <<>> /\ exc = "")
        => /\ isDropFrame(stmt) = ~HasNON(call.arg.s)
           /\ FrameCodeMode__str__(stmt) =
                 (IF HasNON(call.arg.s)
                  THEN <<"F", "C", "M", ":", " ", "N", "O", "N", " ",
                         "D", "R", "O", "P", " ", "F", "R", "A", "M", "E">>
                  ELSE <<"F", "C", "M", ":", " ",
                         "D", "R", "O", "P", " ", "F", "R", "A", "M", "E">>)

\* C8: a FrameCodeMode constructed without raw text is non-drop; an
\* assignment of a bool to isDropFrame is accepted and isDropFrame is then
\* that bool; an assignment of anything else raises TypeError and leaves
\* isDropFrame as it was; and the string form is always FCM: DROP FRAME when
\* isDropFrame is true and FCM: NON DROP FRAME when it is false.
C8_AssignIsDropFrame ==
    /\ [](/\ (call.op = "FrameCodeMode" /\ call.arg = PyNone /\ exc = "")
                => ~isDropFrame(stmt)
          /\ (stmt.kind = "FrameCodeMode" /\ stmt._raw = PyNone)
                => FrameCodeMode__str__(stmt) =
                      (IF isDropFrame(stmt)
                       THEN <<"F", "C", "M", ":", " ",
                              "D", "R", "O", "P", " ", "F", "R", "A", "M", "E">>
                       ELSE <<"F", "C", "M", ":", " ", "N", "O", "N", " ",
                              "D", "R", "O", "P", " ", "F", "R", "A", "M", "E">>))
    /\ [][(stmt.kind = "FrameCodeMode" /\ stmt._raw = PyNone
              /\ call'.op = "isDropFrame=")
            => IF call'.arg.type = "bool"
               THEN exc' = "" /\ isDropFrame(stmt') = (call'.arg = PyBool(TRUE))
               ELSE exc' = "TypeError" /\ isDropFrame(stmt') = isDropFrame(stmt)]_vars

\* the int 1 was refused and left isDropFrame true
C8_Witness ==
    /\ stmt.kind = "FrameCodeMode"
    /\ stmt._raw = PyNone
    /\ call.op = "isDropFrame="
    /\ call.arg = PyInt(1)
    /\ exc = "TypeError"
    /\ isDropFrame(stmt)

\* whitespace normalization: the ends stripped, each run of whitespace
\* inside collapsed to one space
Normalize(s) ==
    LET b == StripWs(s)
        marked == [i \in 1..Len(b) |->
                      IF ~IsSpace(b[i]) THEN b[i]
                      ELSE IF IsSpace(b[i - 1]) THEN ""
                      ELSE " "]
    IN  SelectSeq(marked, LAMBDA c : c # "")

\* s without its leading spaces
RECURSIVE LStripSpaces(_)
LStripSpaces(s) ==
    IF s # <<>> /\ Head(s) = " " THEN LStripSpaces(Tail(s)) ELSE s

\* a raw line, not empty, was accepted by one of the two constructors
LineAccepted ==
    BuiltFromString /\ call.arg.s # <<>> /\ exc = ""

\* C9 as stated: the string form of a statement parsed from an accepted
\* line is the line after whitespace normalization, and for a Title it is
\* the line without its leading spaces.
C9_RoundTrip ==
    LineAccepted =>
        /\ Normalize(StrOfStmt(stmt)) = Normalize(call.arg.s)
        /\ call.op = "Title" => StrOfStmt(stmt) = LStripSpaces(call.arg.s)

----------------------------------------------------------------------------
(* The parsing claims, checked under SpecParse.                            *)

\* the lines of the text, those that are empty left out
NonBlankLines(text) == SelectSeq(Split(text), LAMBDA l : l # <<>>)

\* C10 as stated: parsing a document with a valid fps yields an EDL with
\* one statement per non-blank line, in order, the string form and the raw
\* text of each being its line.
C10_StatementPerLine ==
    (call.op \in {"from_string", "from_file"} /\ EDL__init__(call.arg).exc = "")
        => /\ exc = ""
           /\ edl.alive
           /\ EDL__len__(edl) = Len(NonBlankLines(call.text))
           /\ \A i \in 1..Len(NonBlankLines(call.text)) :
                 /\ i <= Len(edl.events)
                 /\ edl.events[i]._raw.s = NonBlankLines(call.text)[i]
                 /\ StrOfStmt(edl.events[i]) = NonBlankLines(call.text)[i]

\* the line l bears the identifier u, behind nothing but whitespace, without
\* the pattern of the kind occurring in it
FailsSubField(l) ==
    \/ HeadedBy(l, Title_identifier) /\ ~TitleOccurs(l)
    \/ HeadedBy(l, FCM_identifier) /\ ~FCMOccurs(l)

\* C11 as stated: parsing a document with a valid fps fails with
\* StatementError when a line bears the identifier of a kind and fails its
\* pattern, and otherwise appends for every non-blank line a statement of
\* the first kind whose pattern matches it: a Title for a TITLE: line, a
\* FrameCodeMode for an FCM: line.
C11_FirstMatchWins ==
    (call.op \in {"from_string", "from_file"} /\ EDL__init__(call.arg).exc = "")
        => IF \E i \in 1..Len(NonBlankLines(call.text)) :
                  FailsSubField(NonBlankLines(call.text)[i])
           THEN exc = "StatementError"
           ELSE /\ exc = ""
                /\ Len(edl.events) = Len(NonBlankLines(call.text))
                /\ \A i \in 1..Len(NonBlankLines(call.text)) :
                      /\ (HeadedBy(NonBlankLines(call.text)[i], Title_identifier)
                            => edl.events[i].kind = "Title")
                      /\ (HeadedBy(NonBlankLines(call.text)[i], FCM_identifier)
                            => edl.events[i].kind = "FrameCodeMode")

\* C12 as stated: for a document parsed with a valid fps, the non-blank
\* lines of to_string() are the non-blank lines of the document, and parsing
\* the output again yields an EDL with the same title and the same
\* statements.
C12_DocumentRoundTrip ==
    (call.op \in {"from_string", "from_file"} /\ EDL__init__(call.arg).exc = "")
        => /\ exc = ""
           /\ edl.alive
           /\ NonBlankLines(to_string(edl)) = NonBlankLines(call.text)
           /\ from_string(call.arg, to_string(edl)).exc = ""
           /\ from_string(call.arg, to_string(edl)).obj = edl

----------------------------------------------------------------------------
(* The claims on the record timecodes, checked under SpecTimes.            *)

\* the Events among the entries of the events of an EDL, as heap objects
EventsOf(self, hp) ==
    [i \in 1..Len(SelectSeq(self.events, LAMBDA e : e.kind = "Event")) |->
        hp[SelectSeq(self.events, LAMBDA e : e.kind = "Event")[i].id]]

\* the EDL exists and each of its Events has both record timecodes
TimedEDL ==
    /\ edl.alive
    /\ \A i \in 1..Len(EventsOf(edl, heap)) :
          /\ EventsOf(edl, heap)[i].rec_start_tc.type = "Timecode"
          /\ EventsOf(edl, heap)[i].rec_end_tc.type = "Timecode"

\* C13 as stated: get_start and get_end never raise; over the Events of
\* the EDL, other entries ignored, get_start is the record start of fewest
\* frames and get_end the record end of most frames, both None without
\* Events; and get_length is the frames of get_end less those of get_start.
C13_StartEndLength ==
    TimedEDL =>
        /\ get_start(edl, heap).exc = ""
        /\ get_end(edl, heap).exc = ""
        /\ IF EventsOf(edl, heap) = <<>>
           THEN /\ get_start(edl, heap).val = PyNone
                /\ get_end(edl, heap).val = PyNone
           ELSE /\ \E i \in 1..Len(EventsOf(edl, heap)) :
                      get_start(edl, heap).val = EventsOf(edl, heap)[i].rec_start_tc
                /\ \A i \in 1..Len(EventsOf(edl, heap)) :
                      get_start(edl, heap).val.n <= EventsOf(edl, heap)[i].rec_start_tc.n
                /\ \E i \in 1..Len(EventsOf(edl, heap)) :
                      get_end(edl, heap).val = EventsOf(edl, heap)[i].rec_end_tc
                /\ \A i \in 1..Len(EventsOf(edl, heap)) :
                      get_end(edl, heap).val.n >= EventsOf(edl, heap)[i].rec_end_tc.n
                /\ get_length(edl, heap) =
                      Returned(get_end(edl, heap).val.n - get_start(edl, heap).val.n)

----------------------------------------------------------------------------
(* The claims on transitions, checked under SpecChain.                     *)

\* the Event after the Event e, when e has one
NextOf(e) == heap[e.next_event.id]

C15_HasTransition ==
    \A i \in 1..Len(heap) :
        /\ has_transition(heap[i]) =
              (heap[i].transition # PyNone /\ heap[i].transition # Cut)
        /\ ends_with_transition(heap[i], heap) =
              (heap[i].next_event # PyNone /\ has_transition(NextOf(heap[i])))

----------------------------------------------------------------------------
(* The claim on forward links, checked under SpecLinks.                    *)

\* the entry at position q of the events of the EDL is the first Event
\* after position p
FirstEventAfter(p, q) ==
    /\ q > p
    /\ edl.events[q].kind = "Event"
    /\ \A k \in (p + 1)..(q - 1) : edl.events[k].kind # "Event"

\* C16 as stated: the next_event of every Event held by the EDL is None or
\* the Event that follows it next among the Events of the EDL.
C16_ForwardLinks ==
    edl.alive =>
        \A p \in 1..Len(edl.events) :
            edl.events[p].kind = "Event" =>
                \/ heap[edl.events[p].id].next_event = PyNone
                \/ \E q \in 1..Len(edl.events) :
                      /\ FirstEventAfter(p, q)
                      /\ heap[edl.events[p].id].next_event = edl.events[q]

====
